---- MODULE Spec2Model ----
(***************************************************************************)
(* State-machine model of the DarkPoolSettlement contract                  *)
(* (contracts/settlement/src/lib.rs): the escrow / locked balance ledger,  *)
(* the nullifier registry, the public-signal codec, settle_trade and the   *)
(* settlement journal.                                                     *)
(*                                                                         *)
(* Every public operation is one action.  The body of an operation is an   *)
(* operator that threads the instance storage through the statements of    *)
(* the Rust function in program order and yields a result record           *)
(*     [err, st, ret]                                                      *)
(* where st is the storage as written so far.  Invoke then applies the     *)
(* host's call envelope: the writes are kept only when the call returned   *)
(* Ok.                                                                     *)
(***************************************************************************)
EXTENDS Integers, Sequences, FiniteSets, TLC

\* escrow, locked, nullifiers, settlements: the instance storage of the
\* contract.  custody: per asset, the tokens the token contracts hold for the
\* contract address, net of what they held at construction.
VARIABLES escrow, locked, nullifiers, settlements, custody

vars == <<escrow, locked, nullifiers, settlements, custody>>

(***************************************************************************)
(* Bounds of the model.                                                    *)
(***************************************************************************)
MaxAmt == 2
MaxBal == 2
MaxFunds == 2
MaxSettlements == 2

Participants == {"p1", "p2"}
Assets == {"a1", "a2"}
MatchIds == {"m1", "m2"}
NullifierIds == {1, 2}
Amounts == {-1} \cup (1..MaxAmt)

\* env.ledger().timestamp(): the ledger clock stands still in the model.
LedgerTimestamp == 0

\* struct EscrowKey { participant, asset }
EscrowKey(participant, asset) == <<participant, asset>>

Keys == Participants \X Assets

\* The balances the model explores.
BalRange == (-MaxBal)..MaxBal

(***************************************************************************)
(* Instance storage and results.                                           *)
(***************************************************************************)
Storage == [escrow |-> escrow, locked |-> locked,
            nullifiers |-> nullifiers, settlements |-> settlements]

Ok(st, ret) == [err |-> "Ok", st |-> st, ret |-> ret]

Err(e, st) == [err |-> e, st |-> st, ret |-> "none"]

\* A trap of the host (failed require_auth, failed cross-contract call).
Trap(st) == Err("Trap", st)

(***************************************************************************)
(* Read-only queries.                                                      *)
(***************************************************************************)
\* A membership test that finds nothing.
is_nullifier_used_never(S, nullifier) == FALSE

is_nullifier_used(S, nullifier) ==
    \E i \in 1..Len(S.nullifiers) : S.nullifiers[i] = nullifier

get_escrow_balance(S, participant, asset) ==
    S.escrow[EscrowKey(participant, asset)]

get_locked_balance(S, participant, asset) ==
    S.locked[EscrowKey(participant, asset)]

get_available_balance(S, participant, asset) ==
    LET e == get_escrow_balance(S, participant, asset)
        l == get_locked_balance(S, participant, asset)
    IN  e - l

get_settlements(S) == S.settlements

RECURSIVE FirstMatch(_, _, _)
FirstMatch(recs, match_id, i) ==
    IF i > Len(recs) THEN "None"
    ELSE IF recs[i].match_id = match_id THEN recs[i]
    ELSE FirstMatch(recs, match_id, i + 1)

\* A lookup that returns the newest record of the match.
get_settlement_latest(S, match_id) ==
    LET hits == {i \in 1..Len(S.settlements) : S.settlements[i].match_id = match_id}
    IN  IF hits = {} THEN "None"
        ELSE S.settlements[CHOOSE i \in hits : \A j \in hits : j <= i]

get_settlement(S, match_id) == FirstMatch(S.settlements, match_id, 1)

(***************************************************************************)
(* Internal helpers of the balance ledger.                                 *)
(***************************************************************************)
add_escrow_balance(S, participant, asset, amount) ==
    LET key == EscrowKey(participant, asset)
        current == S.escrow[key]
        new_balance == current + amount
    IN  Ok([S EXCEPT !.escrow[key] = new_balance], new_balance)

subtract_escrow_balance(S, participant, asset, amount) ==
    LET key == EscrowKey(participant, asset)
        current == S.escrow[key]
        new_balance == current - amount
    IN  IF current < amount
        THEN Err("InsufficientEscrow", S)
        ELSE Ok([S EXCEPT !.escrow[key] = new_balance], new_balance)

add_locked_balance(S, participant, asset, amount) ==
    LET key == EscrowKey(participant, asset)
        current == S.locked[key]
    IN  Ok([S EXCEPT !.locked[key] = current + amount], "unit")

\* A decrement that refuses to take the whole locked balance.
subtract_locked_balance_strict(S, participant, asset, amount) ==
    LET key == EscrowKey(participant, asset)
        current == S.locked[key]
    IN  IF current <= amount
        THEN Err("InsufficientLockedFunds", S)
        ELSE Ok([S EXCEPT !.locked[key] = current - amount], "unit")

subtract_locked_balance(S, participant, asset, amount) ==
    LET key == EscrowKey(participant, asset)
        current == S.locked[key]
    IN  IF current < amount
        THEN Err("InsufficientLockedFunds", S)
        ELSE Ok([S EXCEPT !.locked[key] = current - amount], "unit")

\* A transfer that forgets to release the sender's lock.
transfer_from_escrow_keep_locked(S, from, to, asset, amount) ==
    LET r2 == subtract_escrow_balance(S, from, asset, amount)
    IN  IF r2.err # "Ok" THEN r2
        ELSE Ok(add_escrow_balance(r2.st, to, asset, amount).st, "unit")

\* A transfer that takes the funds from the sender and credits no one.
transfer_from_escrow_no_credit(S, from, to, asset, amount) ==
    LET r1 == subtract_locked_balance(S, from, asset, amount)
    IN  IF r1.err # "Ok" THEN r1
        ELSE LET r2 == subtract_escrow_balance(r1.st, from, asset, amount)
             IN  IF r2.err # "Ok" THEN r2
                 ELSE Ok(r2.st, "unit")

transfer_from_escrow(S, from, to, asset, amount) ==
    LET r1 == subtract_locked_balance(S, from, asset, amount)
    IN  IF r1.err # "Ok" THEN r1
        ELSE LET r2 == subtract_escrow_balance(r1.st, from, asset, amount)
             IN  IF r2.err # "Ok" THEN r2
                 ELSE Ok(add_escrow_balance(r2.st, to, asset, amount).st, "unit")

\* A registry update that is never stored.
mark_nullifier_used_dropped(S, nullifier) == S

\* A registry update that starts from a fresh list.
mark_nullifier_used_overwrite(S, nullifier) ==
    [S EXCEPT !.nullifiers = <<nullifier>>]

mark_nullifier_used(S, nullifier) ==
    [S EXCEPT !.nullifiers = Append(@, nullifier)]

(***************************************************************************)
(* Byte payloads.  Bytes is a sequence of 0..255, BytesN<32> a sequence of *)
(* 32 bytes.                                                               *)
(***************************************************************************)
\* The 32-byte big-endian field holding the small number v.
Field32(v) == [i \in 1..32 |-> IF i = 32 THEN v ELSE 0]

\* The count read with the least significant byte first.
from_le_bytes(b) == b[4] * 16777216 + b[3] * 65536 + b[2] * 256 + b[1]

\* u32::from_be_bytes
from_be_bytes(b) == b[1] * 16777216 + b[2] * 65536 + b[3] * 256 + b[4]

\* The value of a 32-byte big-endian field whose upper 30 bytes are zero.
FieldValue(f) == f[31] * 256 + f[32]

\* The loop of parse_public_signals: n iterations left, pos bytes consumed.
RECURSIVE ParseLoop(_, _, _, _)
ParseLoop(bytes, pos, n, signals) ==
    IF n = 0 THEN [err |-> "Ok", signals |-> signals]
    ELSE IF pos + 32 > Len(bytes)
         THEN [err |-> "InvalidProof", signals |-> <<>>]
         ELSE ParseLoop(bytes, pos + 32, n - 1,
                        Append(signals, SubSeq(bytes, pos + 1, pos + 32)))

parse_public_signals(bytes) ==
    IF Len(bytes) < 4
    THEN [err |-> "InvalidProof", signals |-> <<>>]
    ELSE ParseLoop(bytes, 4, from_be_bytes(SubSeq(bytes, 1, 4)), <<>>)

(***************************************************************************)
(* External collaborators.                                                 *)
(***************************************************************************)
\* The proof the prover issues for a public-signal payload.
ProofFor(pub_signals_bytes) == <<1>> \o pub_signals_bytes

JunkProof == <<0>>

\* verifier_client.verify_proof_bytes: a deterministic verdict on
\* (verification key, proof, raw payload).
verify_proof_bytes(vk_bytes, proof_bytes, pub_signals_bytes) ==
    proof_bytes = ProofFor(pub_signals_bytes)

\* The verification key stored by the constructor.
SettlementVk == <<7>>

\* token_client.transfer: a token rejects a negative amount and a sender
\* without the funds (funded is the token ledger's answer); failure traps.
token_transfer(amount, funded) == amount >= 0 /\ funded

(***************************************************************************)
(* Public operations of the balance ledger.                                *)
(***************************************************************************)
\* A deposit that does not ask for the depositor's authorization.
deposit_unauthenticated(S, depositor, asset_address, amount, authed, funded) ==
    IF ~token_transfer(amount, funded) THEN Trap(S)
    ELSE add_escrow_balance(S, depositor, asset_address, amount)

deposit(S, depositor, asset_address, amount, authed, funded) ==
    IF ~authed THEN Trap(S)
    ELSE IF ~token_transfer(amount, funded) THEN Trap(S)
    ELSE add_escrow_balance(S, depositor, asset_address, amount)

\* A withdrawal that does not notice the token refusing the transfer.
withdraw_ignoring_transfer(S, withdrawer, asset_address, amount, authed, funded) ==
    IF ~authed THEN Trap(S)
    ELSE LET escrow_balance == get_escrow_balance(S, withdrawer, asset_address)
             locked_balance == get_locked_balance(S, withdrawer, asset_address)
             available == escrow_balance - locked_balance
         IN  IF available < amount
             THEN Err("InsufficientBalance", S)
             ELSE subtract_escrow_balance(S, withdrawer, asset_address, amount)

withdraw(S, withdrawer, asset_address, amount, authed, funded) ==
    IF ~authed THEN Trap(S)
    ELSE LET escrow_balance == get_escrow_balance(S, withdrawer, asset_address)
             locked_balance == get_locked_balance(S, withdrawer, asset_address)
             available == escrow_balance - locked_balance
         IN  IF available < amount
             THEN Err("InsufficientBalance", S)
             ELSE LET r == subtract_escrow_balance(S, withdrawer, asset_address, amount)
                  IN  IF r.err # "Ok" THEN r
                      ELSE IF ~token_transfer(amount, funded) THEN Trap(r.st)
                      ELSE r

\* A lock that checks the escrow balance instead of the available balance.
lock_escrow_ignoring_locked(S, trader, asset_address, amount, authed) ==
    IF ~authed THEN Trap(S)
    ELSE LET escrow_balance == get_escrow_balance(S, trader, asset_address)
         IN  IF escrow_balance < amount
             THEN Err("InsufficientEscrow", S)
             ELSE add_locked_balance(S, trader, asset_address, amount)

lock_escrow(S, trader, asset_address, amount, authed) ==
    IF ~authed THEN Trap(S)
    ELSE LET escrow_balance == get_escrow_balance(S, trader, asset_address)
             locked_balance == get_locked_balance(S, trader, asset_address)
             available == escrow_balance - locked_balance
         IN  IF available < amount
             THEN Err("InsufficientEscrow", S)
             ELSE add_locked_balance(S, trader, asset_address, amount)

\* An unlock that refuses to release the whole locked balance.
unlock_escrow_strict(S, trader, asset_address, amount, authed) ==
    IF ~authed THEN Trap(S)
    ELSE LET locked_balance == get_locked_balance(S, trader, asset_address)
         IN  IF locked_balance <= amount
             THEN Err("InsufficientLockedFunds", S)
             ELSE subtract_locked_balance(S, trader, asset_address, amount)

unlock_escrow(S, trader, asset_address, amount, authed) ==
    IF ~authed THEN Trap(S)
    ELSE LET locked_balance == get_locked_balance(S, trader, asset_address)
         IN  IF locked_balance < amount
             THEN Err("InsufficientLockedFunds", S)
             ELSE subtract_locked_balance(S, trader, asset_address, amount)

(***************************************************************************)
(* Settlement engine.                                                      *)
(***************************************************************************)
SettlementRecord(match_id, buyer, seller, asset_address, quantity, price, timestamp, nullifier) ==
    [match_id |-> match_id, buyer |-> buyer, seller |-> seller,
     asset_address |-> asset_address, quantity |-> quantity, price |-> price,
     timestamp |-> timestamp, nullifier |-> nullifier]

\* A settlement that does not propagate the failure of the payment leg.
settle_trade_unchecked_leg2(S, match_id, buyer, seller, asset_address, payment_asset, quantity, price, proof_bytes, pub_signals_bytes, timestamp) ==
    LET parsed == parse_public_signals(pub_signals_bytes)
        pub_signals == parsed.signals
    IN  IF parsed.err # "Ok" THEN Err("InvalidProof", S)
        ELSE IF Len(pub_signals) # 7 THEN Err("InvalidProof", S)
        ELSE LET nullifier == pub_signals[1]
             IN  IF is_nullifier_used(S, nullifier) THEN Err("NullifierUsed", S)
                 ELSE IF ~verify_proof_bytes(SettlementVk, proof_bytes, pub_signals_bytes)
                      THEN Err("InvalidProof", S)
                 ELSE LET t1 == transfer_from_escrow(S, seller, buyer,
                                                     asset_address, quantity)
                      IN  IF t1.err # "Ok" THEN t1
                          ELSE LET t2 == transfer_from_escrow(t1.st, buyer, seller,
                                                              payment_asset, price)
                                   S3 == mark_nullifier_used(t2.st, nullifier)
                                   record == SettlementRecord(
                                       match_id, buyer, seller, asset_address,
                                       quantity, price, timestamp, nullifier)
                               IN  Ok([S3 EXCEPT !.settlements =
                                           Append(@, record)], record)

\* A settlement that files its record at the front of the journal.
settle_trade_newest_first(S, match_id, buyer, seller, asset_address, payment_asset, quantity, price, proof_bytes, pub_signals_bytes, timestamp) ==
    LET parsed == parse_public_signals(pub_signals_bytes)
        pub_signals == parsed.signals
    IN  IF parsed.err # "Ok" THEN Err("InvalidProof", S)
        ELSE IF Len(pub_signals) # 7 THEN Err("InvalidProof", S)
        ELSE LET nullifier == pub_signals[1]
             IN  IF is_nullifier_used(S, nullifier) THEN Err("NullifierUsed", S)
                 ELSE IF ~verify_proof_bytes(SettlementVk, proof_bytes, pub_signals_bytes)
                      THEN Err("InvalidProof", S)
                 ELSE LET t1 == transfer_from_escrow(S, seller, buyer,
                                                     asset_address, quantity)
                      IN  IF t1.err # "Ok" THEN t1
                          ELSE LET t2 == transfer_from_escrow(t1.st, buyer, seller,
                                                              payment_asset, price)
                               IN  IF t2.err # "Ok" THEN t2
                                   ELSE LET S3 == mark_nullifier_used(t2.st, nullifier)
                                            record == SettlementRecord(
                                                match_id, buyer, seller, asset_address,
                                                quantity, price, timestamp, nullifier)
                                        IN  Ok([S3 EXCEPT !.settlements =
                                                    <<record>> \o @], record)

settle_trade(S, match_id, buyer, seller, asset_address, payment_asset, quantity, price, proof_bytes, pub_signals_bytes, timestamp) ==
    LET parsed == parse_public_signals(pub_signals_bytes)
        pub_signals == parsed.signals
    IN  IF parsed.err # "Ok" THEN Err("InvalidProof", S)
        ELSE IF Len(pub_signals) # 7 THEN Err("InvalidProof", S)
        ELSE LET nullifier == pub_signals[1]
             IN  IF is_nullifier_used(S, nullifier) THEN Err("NullifierUsed", S)
                 ELSE IF ~verify_proof_bytes(SettlementVk, proof_bytes, pub_signals_bytes)
                      THEN Err("InvalidProof", S)
                 ELSE LET t1 == transfer_from_escrow(S, seller, buyer,
                                                     asset_address, quantity)
                      IN  IF t1.err # "Ok" THEN t1
                          ELSE LET t2 == transfer_from_escrow(t1.st, buyer, seller,
                                                              payment_asset, price)
                               IN  IF t2.err # "Ok" THEN t2
                                   ELSE LET S3 == mark_nullifier_used(t2.st, nullifier)
                                            record == SettlementRecord(
                                                match_id, buyer, seller, asset_address,
                                                quantity, price, timestamp, nullifier)
                                        IN  Ok([S3 EXCEPT !.settlements =
                                                    Append(@, record)], record)

(***************************************************************************)
(* The call envelope of the host: a call that returns an error or traps    *)
(* commits none of its writes.                                             *)
(***************************************************************************)
Invoke(S, r) == IF r.err = "Ok" THEN r.st ELSE S

Abs(x) == IF x < 0 THEN -x ELSE x

RECURSIVE SumOver(_, _)
SumOver(f, ks) ==
    IF ks = {} THEN 0
    ELSE LET k == CHOOSE x \in ks : TRUE IN f[k] + SumOver(f, ks \ {k})

Max(x, y) == IF x < y THEN y ELSE x

\* The size of all positions on the books: per key, the larger magnitude of
\* the escrow and the locked balance.
Funds(S) == SumOver([k \in Keys |-> Max(Abs(S.escrow[k]), Abs(S.locked[k]))], Keys)

InBounds(S) ==
    /\ \A k \in Keys : S.escrow[k] \in BalRange /\ S.locked[k] \in BalRange
    /\ Funds(S) <= MaxFunds
    /\ Len(S.settlements) <= MaxSettlements
    /\ Len(S.nullifiers) <= MaxSettlements

Commit(r) ==
    LET S2 == Invoke(Storage, r)
    IN  /\ InBounds(S2)
        /\ escrow' = S2.escrow
        /\ locked' = S2.locked
        /\ nullifiers' = S2.nullifiers
        /\ settlements' = S2.settlements

\* The token contract's books after a call that asked it to move delta of the
\* asset into the contract's custody: the movement stands only if the call
\* returned Ok.
TokenCustody(r, asset, delta) ==
    IF r.err = "Ok" THEN [custody EXCEPT ![asset] = @ + delta] ELSE custody

(***************************************************************************)
(* Payloads offered to settle_trade.                                       *)
(***************************************************************************)
Count(n) == <<0, 0, n \div 256, n % 256>>

\* A well-formed payload of 7 signals: nullifier n, matched quantity q,
\* execution price p.
SignalPayload(n, q, p) ==
    Count(7) \o Field32(n) \o Field32(11) \o Field32(12) \o Field32(13)
             \o Field32(q) \o Field32(p) \o Field32(14)

Payloads ==
    {SignalPayload(n, 1, 1) : n \in NullifierIds}
      \cup { <<0, 0, 7>>,                                  \* shorter than the count
             Count(7) \o Field32(1),                       \* truncated
             Count(1) \o Field32(1),                       \* one signal only
             SignalPayload(1, 1, 1) \o <<9>>,              \* trailing byte
             Count(8) \o SubSeq(SignalPayload(1, 1, 1), 5, 228) \o Field32(15) }

\* The orders submitted for settlement: p1 buys a1 from p2 and pays in a2,
\* match m1 one unit for one unit, match m2 a negative quantity at price zero.
Buyers == {"p1"}
Sellers == {"p2"}
TradedAssets == {"a1"}
PaymentAssets == {"a2"}
MatchTerms == [m \in MatchIds |-> IF m = "m1" THEN <<1, 1>> ELSE <<-1, 0>>]
TradeTerms == {MatchTerms[m] : m \in MatchIds}

(***************************************************************************)
(* Actions: one per public operation.                                      *)
(***************************************************************************)
Init ==
    /\ escrow = [k \in Keys |-> 0]
    /\ locked = [k \in Keys |-> 0]
    /\ nullifiers = <<>>
    /\ settlements = <<>>
    /\ custody = [a \in Assets |-> 0]

Deposit ==
    \E p \in Participants, a \in Assets, amount \in Amounts,
       authed \in BOOLEAN, funded \in BOOLEAN :
        LET r == deposit(Storage, p, a, amount, authed, funded)
        IN  Commit(r) /\ custody' = TokenCustody(r, a, amount)

Withdraw ==
    \E p \in Participants, a \in Assets, amount \in Amounts,
       authed \in BOOLEAN, funded \in BOOLEAN :
        LET r == withdraw(Storage, p, a, amount, authed, funded)
        IN  Commit(r) /\ custody' = TokenCustody(r, a, -amount)

LockEscrow ==
    \E p \in Participants, a \in Assets, amount \in Amounts, authed \in BOOLEAN :
        Commit(lock_escrow(Storage, p, a, amount, authed)) /\ UNCHANGED custody

UnlockEscrow ==
    \E p \in Participants, a \in Assets, amount \in Amounts, authed \in BOOLEAN :
        Commit(unlock_escrow(Storage, p, a, amount, authed)) /\ UNCHANGED custody

SettleTrade ==
    \E match_id \in MatchIds, buyer \in Buyers, seller \in Sellers,
       asset_address \in TradedAssets, payment_asset \in PaymentAssets,
       pub \in Payloads, honest \in BOOLEAN :
        LET terms == MatchTerms[match_id]
            proof == IF honest THEN ProofFor(pub) ELSE JunkProof
        IN  /\ Commit(settle_trade(Storage, match_id, buyer, seller, asset_address,
                                   payment_asset, terms[1], terms[2], proof, pub,
                                   LedgerTimestamp))
            /\ UNCHANGED custody

Next == Deposit \/ Withdraw \/ LockEscrow \/ UnlockEscrow \/ SettleTrade

Spec == Init /\ [][Next]_vars

(***************************************************************************)
(* Calls considered from each reachable state by the properties below.     *)
(***************************************************************************)
CallAmounts == (-1)..MaxAmt

\* The well-formed payloads, one per nullifier.
GoodPayloads == {SignalPayload(n, 1, 1) : n \in NullifierIds}

\* settle_trade called from the current state.
SettleCall(match_id, buyer, seller, asset_address, payment_asset, quantity, price, pub, honest) ==
    settle_trade(Storage, match_id, buyer, seller, asset_address, payment_asset,
                 quantity, price,
                 IF honest THEN ProofFor(pub) ELSE JunkProof, pub, LedgerTimestamp)

\* The nullifiers carried by the records of the journal.
SettledNullifiers == {settlements[i].nullifier : i \in 1..Len(settlements)}

(***************************************************************************)
(* Properties.                                                             *)
(***************************************************************************)

\* C1: in every reachable state LockedBalance[(p, a)] <= EscrowBalance[(p, a)]
\* for every participant p and asset a.
C1_LockedWithinEscrow ==
    \A k \in Keys : locked[k] <= escrow[k]

\* C2: exactly-once settlement: the nullifier registry holds no nullifier
\* twice, the journal holds at most one record per nullifier, and a nullifier
\* is in the registry iff exactly one journal record carries it.
C2_ExactlyOnce ==
    /\ \A i, j \in 1..Len(nullifiers) :
          nullifiers[i] = nullifiers[j] => i = j
    /\ \A i, j \in 1..Len(settlements) :
          settlements[i].nullifier = settlements[j].nullifier => i = j
    /\ \A n \in NullifierIds :
          is_nullifier_used(Storage, Field32(n))
            <=> Cardinality({i \in 1..Len(settlements) :
                               settlements[i].nullifier = Field32(n)}) = 1

\* Two settlements with different nullifiers have been committed.
C2_Witness ==
    /\ Len(settlements) = 2
    /\ Len(nullifiers) = 2
    /\ nullifiers[1] # nullifiers[2]

\* The payloads that decode to 7 signals of which the first is nullifier n.
PayloadsCarrying(n) ==
    {SignalPayload(n, 1, 1), SignalPayload(n, 1, 1) \o <<9>>}

\* C3: once a settle_trade carrying nullifier N has succeeded, in every later
\* state every settle_trade whose payload decodes to 7 signals with
\* signals[0] = N fails with NullifierUsed, whatever its other arguments and
\* proof validity, and leaves balances, registry and journal unchanged.
C3_ReplayRejected ==
    [](\A n \in NullifierIds :
        Field32(n) \in SettledNullifiers =>
            \A match_id \in MatchIds, buyer \in Participants, seller \in Participants,
               assets \in {<<"a1", "a2">>, <<"a2", "a2">>},
               terms \in TradeTerms,
               pub \in PayloadsCarrying(n), honest \in BOOLEAN :
                LET r == SettleCall(match_id, buyer, seller, assets[1], assets[2],
                                    terms[1], terms[2], pub, honest)
                IN  /\ r.err = "NullifierUsed"
                    /\ Invoke(Storage, r) = Storage)

\* A settlement has succeeded whose trade could be settled once more under the
\* other nullifier, yet is refused under its own.
C3_Witness ==
    \E i \in 1..Len(settlements), n \in NullifierIds, m \in NullifierIds :
        LET rec == settlements[i]
        IN  /\ rec.nullifier = Field32(n)
            /\ SettleCall(rec.match_id, rec.buyer, rec.seller, rec.asset_address,
                          "a2", rec.quantity, rec.price,
                          SignalPayload(n, 1, 1), TRUE).err = "NullifierUsed"
            /\ SettleCall(rec.match_id, rec.buyer, rec.seller, rec.asset_address,
                          "a2", rec.quantity, rec.price,
                          SignalPayload(m, 1, 1), TRUE).err = "Ok"

\* Trades probed from each reachable state.
ProbeParties == {<<"p1", "p2">>, <<"p2", "p1">>}
ProbeAssets == {<<"a1", "a2">>, <<"a2", "a1">>}
ProbeTerms == {<<1, 1>>, <<-1, 0>>, <<-1, 1>>, <<2, 1>>, <<1, 2>>, <<0, -1>>}

\* C4: settle_trade is all-or-nothing: whenever it fails (payload malformed,
\* signal count other than 7, nullifier used, verifier reports invalid, leg 1
\* fails, or leg 2 fails after leg 1 was applied) the balances, the registry
\* and the journal afterwards are those before the call.
C4_AllOrNothing ==
    \A parties \in ProbeParties, terms \in {<<1, 1>>, <<-1, 0>>, <<-1, 1>>, <<1, -1>>},
       pub \in Payloads, honest \in BOOLEAN :
        LET buyer == parties[1]
            seller == parties[2]
            parsed == parse_public_signals(pub)
            leg1 == transfer_from_escrow(Storage, seller, buyer, "a1", terms[1])
            leg2 == transfer_from_escrow(leg1.st, buyer, seller, "a2", terms[2])
            fails == \/ parsed.err # "Ok"
                     \/ Len(parsed.signals) # 7
                     \/ is_nullifier_used(Storage, parsed.signals[1])
                     \/ ~honest
                     \/ leg1.err # "Ok"
                     \/ leg2.err # "Ok"
            r == SettleCall("m1", buyer, seller, "a1", "a2", terms[1], terms[2],
                            pub, honest)
        IN  /\ fails => r.err # "Ok"
            /\ r.err # "Ok" => Invoke(Storage, r) = Storage

\* Leg 1 of a verified trade would move funds and leg 2 would then fail.
C4_Witness ==
    \E parties \in ProbeParties, pub \in GoodPayloads :
        LET leg1 == transfer_from_escrow(Storage, parties[2], parties[1], "a1", 1)
            leg2 == transfer_from_escrow(leg1.st, parties[1], parties[2], "a2", 1)
            r == SettleCall("m1", parties[1], parties[2], "a1", "a2", 1, 1, pub, TRUE)
        IN  /\ leg1.err = "Ok" /\ leg1.st # Storage
            /\ leg2.err = "InsufficientLockedFunds"
            /\ r.err = "InsufficientLockedFunds"

\* C5: in every reachable state EscrowBalance[(p, a)] >= 0 for every
\* participant p and asset a.
C5_EscrowNonNegative ==
    \A k \in Keys : escrow[k] >= 0

\* C6: a successful settle_trade with buyer # seller and asset # payment_asset
\* moves quantity of the asset from the seller's escrow and locked balance to
\* the buyer's escrow, price of the payment asset from the buyer's escrow and
\* locked balance to the seller's escrow, marks signals[0] used, appends one
\* record with the supplied match_id and that nullifier, and changes nothing
\* else.
C6_SettleEffect ==
    \A match_id \in MatchIds, parties \in ProbeParties, assets \in ProbeAssets,
       terms \in ProbeTerms, pub \in GoodPayloads :
        LET buyer == parties[1]
            seller == parties[2]
            asset == assets[1]
            payment == assets[2]
            quantity == terms[1]
            price == terms[2]
            nullifier == SubSeq(pub, 5, 36)
            r == SettleCall(match_id, buyer, seller, asset, payment, quantity,
                            price, pub, TRUE)
            post == Invoke(Storage, r)
        IN  r.err = "Ok" =>
              /\ post.escrow = [k \in Keys |->
                    IF k = EscrowKey(seller, asset) THEN escrow[k] - quantity
                    ELSE IF k = EscrowKey(buyer, asset) THEN escrow[k] + quantity
                    ELSE IF k = EscrowKey(buyer, payment) THEN escrow[k] - price
                    ELSE escrow[k] + price]
              /\ post.locked = [k \in Keys |->
                    IF k = EscrowKey(seller, asset) THEN locked[k] - quantity
                    ELSE IF k = EscrowKey(buyer, payment) THEN locked[k] - price
                    ELSE locked[k]]
              /\ ~is_nullifier_used(Storage, nullifier)
              /\ is_nullifier_used(post, nullifier)
              /\ Len(post.settlements) = Len(settlements) + 1
              /\ SubSeq(post.settlements, 1, Len(settlements)) = settlements
              /\ post.settlements[Len(post.settlements)].match_id = match_id
              /\ post.settlements[Len(post.settlements)].nullifier = nullifier
              /\ r.ret = post.settlements[Len(post.settlements)]

\* A one-for-one trade between two parties has been settled and the buyer
\* holds the asset.
C6_Witness ==
    \E i \in 1..Len(settlements) :
        LET rec == settlements[i]
        IN  /\ rec.buyer # rec.seller
            /\ rec.quantity = 1 /\ rec.price = 1
            /\ escrow[EscrowKey(rec.buyer, rec.asset_address)] = 1
            /\ escrow[EscrowKey(rec.seller, "a2")] = 1

\* The decoded 7-signal sequences of the offered payloads.
OfferedSignals ==
    {parse_public_signals(pub).signals : pub \in
        {q \in Payloads : /\ parse_public_signals(q).err = "Ok"
                          /\ Len(parse_public_signals(q).signals) = 7}}

\* C7: a settlement succeeds only if its quantity argument equals the
\* matched-quantity signal (signals[4]) and its price argument equals the
\* execution-price signal (signals[5]) of the payload the verifier accepted:
\* every journal record agrees with the signals of the payloads that carry its
\* nullifier.
C7_TermsMatchSignals ==
    \A i \in 1..Len(settlements) :
        \A signals \in OfferedSignals :
            signals[1] = settlements[i].nullifier =>
              /\ settlements[i].quantity = FieldValue(signals[5])
              /\ settlements[i].price = FieldValue(signals[6])

\* C8: is_nullifier_used(N) is false before the first successful settle_trade
\* carrying N and true in every state after it: N is used exactly when a
\* journal record carries it, a successful settle_trade carrying N finds it
\* unused and leaves it used, the step that appends the record of N leaves N
\* used, no step removes a nullifier from the registry, and a step adds one
\* only by appending the journal record of the settlement that carries it.
C8_NullifierPermanent ==
    /\ [](\A n \in NullifierIds :
            is_nullifier_used(Storage, Field32(n)) <=> Field32(n) \in SettledNullifiers)
    /\ [](\A n \in NullifierIds : \A pub \in PayloadsCarrying(n) :
            LET r == SettleCall("m1", "p1", "p2", "a1", "a2", 1, 1, pub, TRUE)
            IN  r.err = "Ok" =>
                  /\ ~is_nullifier_used(Storage, Field32(n))
                  /\ is_nullifier_used(Invoke(Storage, r), Field32(n)))
    /\ [][\A n \in NullifierIds :
            (Len(settlements') = Len(settlements) + 1
               /\ settlements'[Len(settlements')].nullifier = Field32(n))
              => is_nullifier_used(Storage', Field32(n))]_vars
    /\ [][\A n \in NullifierIds :
            /\ is_nullifier_used(Storage, Field32(n))
                  => is_nullifier_used(Storage', Field32(n))
            /\ (~is_nullifier_used(Storage, Field32(n))
                  /\ is_nullifier_used(Storage', Field32(n)))
                  => /\ Len(settlements') = Len(settlements) + 1
                     /\ settlements'[Len(settlements')].nullifier = Field32(n)]_vars

\* Both nullifiers have been consumed, one after the other.
C8_Witness ==
    /\ Len(nullifiers) = 2
    /\ \A n \in NullifierIds : is_nullifier_used(Storage, Field32(n))

\* C9: an authenticated withdraw(p, a, amount) fails with InsufficientBalance
\* exactly when escrow - locked < amount, changing nothing, and with no other
\* ledger error; otherwise it succeeds, lowers the escrow balance by amount,
\* leaves the locked balance alone and returns the new escrow balance (the
\* token honouring the transfer).
C9_WithdrawContract ==
    \A p \in Participants, a \in Assets, amount \in CallAmounts :
        LET k == EscrowKey(p, a)
            r == withdraw(Storage, p, a, amount, TRUE, TRUE)
            post == Invoke(Storage, r)
        IN  token_transfer(amount, TRUE) =>
              IF escrow[k] - locked[k] < amount
              THEN r.err = "InsufficientBalance" /\ post = Storage
              ELSE /\ r.err = "Ok"
                   /\ post.escrow = [escrow EXCEPT ![k] = @ - amount]
                   /\ post.locked = locked
                   /\ r.ret = escrow[k] - amount

\* C10: an authenticated lock_escrow(p, a, amount) fails with
\* InsufficientEscrow exactly when escrow - locked < amount, changing nothing;
\* otherwise it succeeds, raises the locked balance of the key by amount and
\* leaves the escrow balances and every other key unchanged.
C10_LockContract ==
    \A p \in Participants, a \in Assets, amount \in CallAmounts :
        LET k == EscrowKey(p, a)
            r == lock_escrow(Storage, p, a, amount, TRUE)
            post == Invoke(Storage, r)
        IN  IF escrow[k] - locked[k] < amount
            THEN r.err = "InsufficientEscrow" /\ post = Storage
            ELSE /\ r.err = "Ok"
                 /\ post = [Storage EXCEPT !.locked[k] = @ + amount]

\* After a deposit of 2 and a lock of 1 (locked 1, available 1), one more unit
\* can be locked and two cannot.
C10_Witness ==
    \E p \in Participants, a \in Assets :
        /\ escrow[EscrowKey(p, a)] = 2
        /\ locked[EscrowKey(p, a)] = 1
        /\ get_available_balance(Storage, p, a) = 1
        /\ lock_escrow(Storage, p, a, 1, TRUE).err = "Ok"
        /\ lock_escrow(Storage, p, a, 2, TRUE).err = "InsufficientEscrow"

\* C11: an authenticated unlock_escrow(p, a, amount) fails with
\* InsufficientLockedFunds exactly when LockedBalance[(p, a)] < amount, changing
\* nothing; otherwise it succeeds, lowers the locked balance of the key by
\* exactly amount and leaves the escrow balances and every other key unchanged.
C11_UnlockContract ==
    \A p \in Participants, a \in Assets, amount \in CallAmounts :
        LET k == EscrowKey(p, a)
            r == unlock_escrow(Storage, p, a, amount, TRUE)
            post == Invoke(Storage, r)
        IN  IF locked[k] < amount
            THEN r.err = "InsufficientLockedFunds" /\ post = Storage
            ELSE /\ r.err = "Ok"
                 /\ post = [Storage EXCEPT !.locked[k] = @ - amount]

\* With 2 in escrow of which 1 is locked, the one locked unit can be unlocked
\* and two units cannot.
C11_Witness ==
    \E p \in Participants, a \in Assets :
        /\ escrow[EscrowKey(p, a)] = 2
        /\ locked[EscrowKey(p, a)] = 1
        /\ unlock_escrow(Storage, p, a, 1, TRUE).err = "Ok"
        /\ Invoke(Storage, unlock_escrow(Storage, p, a, 1, TRUE)).locked[EscrowKey(p, a)] = 0
        /\ unlock_escrow(Storage, p, a, 2, TRUE).err = "InsufficientLockedFunds"

\* C12: deposit/withdraw round trip: from any reachable state a successful
\* deposit(p, a, amount) immediately followed by withdraw(p, a, amount) always
\* succeeds and returns EscrowBalance[(p, a)] to its value before the deposit,
\* with the locked balances and every other key unchanged (the token honouring
\* both transfers).
C12_RoundTrip ==
    \A p \in Participants, a \in Assets, amount \in CallAmounts :
        LET d == deposit(Storage, p, a, amount, TRUE, TRUE)
            S1 == Invoke(Storage, d)
            w == withdraw(S1, p, a, amount, TRUE, TRUE)
            S2 == Invoke(S1, w)
        IN  d.err = "Ok" =>
              /\ w.err = "Ok"
              /\ S2.escrow = escrow
              /\ S2.locked = locked

\* Trades and top-up locks tried for the retry of a settlement.
RetryTerms == {<<1, 1>>, <<2, 1>>, <<1, 0>>}
RetryLocks == 1..MaxAmt

Ramp64 == [i \in 1..64 |-> i]

\* Payloads given to the codec: shorter than the count, counts 0, 1, 2 and 7
\* with exactly, fewer and more than the declared bytes, and counts whose upper
\* bytes are set.
CodecPayloads ==
    Payloads \cup
    { <<>>, <<0>>, <<0, 0, 0>>,
      Count(0), Count(0) \o <<5>>,
      Count(1) \o Field32(3), Count(1) \o SubSeq(Field32(3), 1, 31),
      Count(1) \o Ramp64,
      Count(2) \o Ramp64, Count(2) \o Ramp64 \o <<7, 7>>,
      Count(2) \o SubSeq(Ramp64, 1, 63), Count(3) \o Ramp64,
      <<1, 0, 0, 0>> \o Field32(3), <<0, 1, 0, 0>> \o Field32(3),
      <<0, 0, 1, 0>> \o Field32(3), <<0, 0, 1, 1>> \o Ramp64,
      SubSeq(SignalPayload(1, 1, 1), 1, 227) }

\* C14: parse_public_signals(payload) fails with InvalidProof when the payload
\* has fewer than 4 bytes or fewer than 4 + 32*n bytes, n being the big-endian
\* unsigned count in its first 4 bytes; otherwise it returns exactly n fields,
\* field i (from 0) being the payload bytes [4 + 32i, 4 + 32i + 32) in payload
\* order, trailing bytes ignored; and a settle_trade given a payload rejected
\* this way fails with InvalidProof and changes no state.
C14_ParseContract ==
    \A bytes \in CodecPayloads :
        LET r == parse_public_signals(bytes)
            n == bytes[1] * 16777216 + bytes[2] * 65536 + bytes[3] * 256 + bytes[4]
            rejected == Len(bytes) < 4 \/ Len(bytes) < 4 + 32 * n
        IN  IF rejected
            THEN /\ r.err = "InvalidProof"
                 /\ \A parties \in ProbeParties, honest \in BOOLEAN :
                        LET s == SettleCall("m1", parties[1], parties[2], "a1", "a2",
                                            1, 1, bytes, honest)
                        IN  s.err = "InvalidProof" /\ Invoke(Storage, s) = Storage
            ELSE /\ r.err = "Ok"
                 /\ Len(r.signals) = n
                 /\ \A i \in 0..(n - 1) :
                        r.signals[i + 1] = [j \in 1..32 |-> bytes[4 + 32 * i + j]]

\* Seller and buyer have locked a one-for-one trade that settles under a
\* well-formed payload, and the same payload cut short by one byte, with a
\* proof issued for it, is rejected as InvalidProof.
C14_Witness ==
    \E pub \in GoodPayloads :
        LET cut == SubSeq(pub, 1, Len(pub) - 1)
        IN  /\ Len(parse_public_signals(pub).signals) = 7
            /\ parse_public_signals(pub).signals[5] = Field32(1)
            /\ SettleCall("m1", "p1", "p2", "a1", "a2", 1, 1, pub, TRUE).err = "Ok"
            /\ parse_public_signals(cut).err = "InvalidProof"
            /\ SettleCall("m1", "p1", "p2", "a1", "a2", 1, 1, cut, TRUE).err = "InvalidProof"

\* C15: the settlement journal is append-only: a successful settle_trade
\* appends exactly one SettlementRecord (the one it returns) at the end, a
\* failed settle_trade and every deposit, withdraw, lock_escrow and
\* unlock_escrow leave the journal as it was, and in every step the sequence
\* returned by get_settlements before the step is a prefix of the sequence
\* returned after it, at most one record longer.
C15_JournalAppendOnly ==
    /\ [](/\ \A p \in Participants, a \in Assets, amount \in CallAmounts :
               /\ Invoke(Storage, deposit(Storage, p, a, amount, TRUE, TRUE)).settlements
                      = settlements
               /\ Invoke(Storage, withdraw(Storage, p, a, amount, TRUE, TRUE)).settlements
                      = settlements
               /\ Invoke(Storage, lock_escrow(Storage, p, a, amount, TRUE)).settlements
                      = settlements
               /\ Invoke(Storage, unlock_escrow(Storage, p, a, amount, TRUE)).settlements
                      = settlements
          /\ \A match_id \in MatchIds, parties \in ProbeParties, pub \in Payloads,
                honest \in BOOLEAN :
               LET terms == MatchTerms[match_id]
                   r == SettleCall(match_id, parties[1], parties[2], "a1", "a2",
                                   terms[1], terms[2], pub, honest)
                   post == Invoke(Storage, r)
               IN  IF r.err = "Ok"
                   THEN /\ get_settlements(post) = Append(get_settlements(Storage), r.ret)
                        /\ r.ret.match_id = match_id
                   ELSE get_settlements(post) = get_settlements(Storage))
    /\ [][/\ Len(get_settlements(Storage')) \in
                {Len(get_settlements(Storage)), Len(get_settlements(Storage)) + 1}
          /\ SubSeq(get_settlements(Storage'), 1, Len(get_settlements(Storage)))
                = get_settlements(Storage)]_vars

\* Two settlements are on record in the order in which they were committed:
\* the one-for-one trade first, then the second match.
C15_Witness ==
    /\ Len(get_settlements(Storage)) = 2
    /\ get_settlements(Storage)[1].match_id = "m1"
    /\ get_settlements(Storage)[1].quantity = 1
    /\ get_settlements(Storage)[2].match_id = "m2"

\* Match identifiers looked up: those submitted and one never submitted.
LookupIds == MatchIds \cup {"m3"}

\* C16: match identifiers are not unique keys: a settle_trade whose match_id
\* is already on record fares exactly as the same call under a match_id never
\* seen, so two calls with the same match_id and different unused nullifiers
\* can both succeed, each appending a record; get_settlement(id) returns the
\* record with the lowest insertion index among those whose match_id is id,
\* and None exactly when no record has that match_id.
C16_FirstMatch ==
    /\ \A id \in LookupIds :
          LET hits == {i \in 1..Len(settlements) : settlements[i].match_id = id}
          IN  IF hits = {}
              THEN get_settlement(Storage, id) = "None"
              ELSE get_settlement(Storage, id) =
                       settlements[CHOOSE i \in hits : \A j \in hits : i <= j]
    /\ \A i \in 1..Len(settlements), pub \in GoodPayloads, honest \in BOOLEAN :
          LET id == settlements[i].match_id
              terms == MatchTerms[id]
              again == SettleCall(id, "p1", "p2", "a1", "a2", terms[1], terms[2],
                                  pub, honest)
              fresh == SettleCall("m3", "p1", "p2", "a1", "a2", terms[1], terms[2],
                                  pub, honest)
          IN  /\ again.err = fresh.err
              /\ again.err = "Ok" =>
                    /\ Invoke(Storage, again).settlements = Append(settlements, again.ret)
                    /\ again.ret.match_id = id

\* Two records with the same match_id and different nullifiers are on record,
\* and the lookup returns the older one.
C16_Witness ==
    /\ Len(settlements) = 2
    /\ settlements[1].match_id = settlements[2].match_id
    /\ settlements[1].nullifier # settlements[2].nullifier
    /\ get_settlement(Storage, settlements[2].match_id) = settlements[1]
    /\ get_settlement(Storage, settlements[2].match_id) # settlements[2]
    /\ get_settlement(Storage, "m3") = "None"

\* The escrow and locked balances of participant p in every asset.
BalancesOf(S, p) == [a \in Assets |-> <<S.escrow[EscrowKey(p, a)], S.locked[EscrowKey(p, a)]>>]

\* The storage S2 is what a successful ledger call authenticated by p leaves.
AuthenticatedLedgerCall(p, S2) ==
    \E a \in Assets, amount \in Amounts, funded \in BOOLEAN :
        \/ LET r == deposit(Storage, p, a, amount, TRUE, funded)
           IN  r.err = "Ok" /\ S2 = r.st
        \/ LET r == withdraw(Storage, p, a, amount, TRUE, funded)
           IN  r.err = "Ok" /\ S2 = r.st
        \/ LET r == lock_escrow(Storage, p, a, amount, TRUE)
           IN  r.err = "Ok" /\ S2 = r.st
        \/ LET r == unlock_escrow(Storage, p, a, amount, TRUE)
           IN  r.err = "Ok" /\ S2 = r.st

\* C17: a participant's escrow or locked balance changes in a step only if
\* the step is a deposit, withdraw, lock_escrow or unlock_escrow authenticated
\* by that participant, or a successful settle_trade naming the participant as
\* buyer or seller.  A ledger call naming p without p's authentication changes
\* no state, an authenticated one changes no other participant's balances, and
\* a settle_trade, which asks for no authentication, changes the balances of
\* its buyer and seller only.
C17_AuthorizedChanges ==
    /\ [](/\ \A p \in Participants, a \in Assets, amount \in CallAmounts,
                funded \in BOOLEAN :
               /\ Invoke(Storage, deposit(Storage, p, a, amount, FALSE, funded)) = Storage
               /\ Invoke(Storage, withdraw(Storage, p, a, amount, FALSE, funded)) = Storage
               /\ Invoke(Storage, lock_escrow(Storage, p, a, amount, FALSE)) = Storage
               /\ Invoke(Storage, unlock_escrow(Storage, p, a, amount, FALSE)) = Storage
               /\ \A q \in Participants \ {p} :
                    /\ BalancesOf(Invoke(Storage, deposit(Storage, p, a, amount, TRUE, funded)), q)
                          = BalancesOf(Storage, q)
                    /\ BalancesOf(Invoke(Storage, withdraw(Storage, p, a, amount, TRUE, funded)), q)
                          = BalancesOf(Storage, q)
                    /\ BalancesOf(Invoke(Storage, lock_escrow(Storage, p, a, amount, TRUE)), q)
                          = BalancesOf(Storage, q)
                    /\ BalancesOf(Invoke(Storage, unlock_escrow(Storage, p, a, amount, TRUE)), q)
                          = BalancesOf(Storage, q)
          /\ \A buyer \in Participants, seller \in Participants,
                terms \in {<<1, 1>>, <<1, 0>>, <<-1, 0>>}, pub \in GoodPayloads :
               LET r == SettleCall("m1", buyer, seller, "a1", "a2", terms[1], terms[2],
                                   pub, TRUE)
               IN  \A q \in Participants \ {buyer, seller} :
                       BalancesOf(Invoke(Storage, r), q) = BalancesOf(Storage, q))
    /\ [][\A p \in Participants :
             BalancesOf(Storage', p) # BalancesOf(Storage, p) =>
                \/ AuthenticatedLedgerCall(p, Storage')
                \/ /\ Len(settlements') = Len(settlements) + 1
                   /\ p \in {settlements'[Len(settlements')].buyer,
                             settlements'[Len(settlements')].seller}]_vars

\* A trade has been settled, moving the balances of buyer and seller with no
\* authorization from either, while a deposit in the buyer's name is refused
\* without the buyer's authorization and accepted with it.
C17_Witness ==
    /\ Len(settlements) = 1
    /\ settlements[1].quantity = 1
    /\ escrow[EscrowKey(settlements[1].buyer, "a1")] = 1
    /\ escrow[EscrowKey(settlements[1].seller, "a1")] = 0
    /\ deposit(Storage, settlements[1].buyer, "a1", 1, FALSE, TRUE).err = "Trap"
    /\ deposit(Storage, settlements[1].buyer, "a1", 1, TRUE, TRUE).err = "Ok"

\* C18: if the token transfer fails during an authenticated deposit or
\* withdraw, the call does not succeed and commits no balance mutation: the
\* escrow and locked balance of every key, and the token custody, are after
\* the call what they were before it, also in withdraw, where the escrow
\* decrement is executed before the transfer.
C18_TransferFailureAtomic ==
    \A p \in Participants, a \in Assets, amount \in CallAmounts, funded \in BOOLEAN :
        ~token_transfer(amount, funded) =>
            LET d == deposit(Storage, p, a, amount, TRUE, funded)
                w == withdraw(Storage, p, a, amount, TRUE, funded)
            IN  /\ d.err # "Ok"
                /\ Invoke(Storage, d).escrow = escrow
                /\ Invoke(Storage, d).locked = locked
                /\ TokenCustody(d, a, amount) = custody
                /\ w.err # "Ok"
                /\ Invoke(Storage, w).escrow = escrow
                /\ Invoke(Storage, w).locked = locked
                /\ TokenCustody(w, a, -amount) = custody

\* A participant has an available unit; a withdrawal of it whose token
\* transfer fails has already lowered the escrow balance when it traps, and
\* the ledger keeps the old balance.
C18_Witness ==
    \E p \in Participants, a \in Assets :
        LET w == withdraw(Storage, p, a, 1, TRUE, FALSE)
        IN  /\ get_available_balance(Storage, p, a) >= 1
            /\ w.err = "Trap"
            /\ w.st.escrow[EscrowKey(p, a)] = escrow[EscrowKey(p, a)] - 1
            /\ Invoke(Storage, w) = Storage
            /\ deposit(Storage, p, a, 1, TRUE, FALSE).err = "Trap"

\* The escrow balances of asset a summed over all participants.
EscrowTotal(S, a) ==
    SumOver([p \in Participants |-> S.escrow[EscrowKey(p, a)]], Participants)

\* C19: custody conservation: in every reachable state, for each asset a, the
\* sum over all participants of EscrowBalance[(p, a)] equals the net amount of
\* a the token collaborator moved into the contract's custody (successful
\* deposits minus successful withdrawals); in particular a successful
\* settle_trade, whoever its parties and whatever its two assets, leaves the
\* per-asset sum of the escrow balances unchanged.
C19_CustodyConservation ==
    /\ \A a \in Assets : EscrowTotal(Storage, a) = custody[a]
    /\ \A buyer \in Participants, seller \in Participants, assets \in Assets \X Assets,
          terms \in {<<1, 1>>, <<-1, 0>>} :
          LET r == SettleCall("m1", buyer, seller, assets[1], assets[2],
                              terms[1], terms[2], SignalPayload(1, 1, 1), TRUE)
          IN  r.err = "Ok" =>
                \A a \in Assets : EscrowTotal(r.st, a) = EscrowTotal(Storage, a)

\* After deposits of one unit of each asset a one-for-one trade has been
\* settled: the units have changed hands and the custody still holds one of
\* each.
C19_Witness ==
    /\ Len(settlements) >= 1
    /\ custody = [a \in Assets |-> 1]
    /\ escrow[EscrowKey("p1", "a1")] = 1
    /\ escrow[EscrowKey("p2", "a2")] = 1
    /\ escrow[EscrowKey("p2", "a1")] = 0
    /\ escrow[EscrowKey("p1", "a2")] = 0

\* C20: settlement moves only locked funds: a step that commits a settlement
\* never decreases the available balance (escrow - locked) of any participant
\* in any asset.
C20_OnlyLockedFundsMove ==
    [][Len(settlements') = Len(settlements) + 1 =>
          \A p \in Participants, a \in Assets :
              get_available_balance(Storage', p, a)
                  >= get_available_balance(Storage, p, a)]_vars

\* C21: in every state reachable by any sequence of public operations with
\* any signed amounts, LockedBalance[(p, a)] >= 0 for every participant p and
\* asset a, so get_available_balance(p, a) never exceeds
\* get_escrow_balance(p, a).
C21_LockedNonNegative ==
    \A p \in Participants, a \in Assets :
        /\ get_locked_balance(Storage, p, a) >= 0
        /\ get_available_balance(Storage, p, a) <= get_escrow_balance(Storage, p, a)

====
